---- MODULE Spec2Model ----
(***************************************************************************)
(* The request lifecycle of the XiangxinAI guardrails client               *)
(* (src/src/client.ts, lines 51-580): input validation and short-circuits  *)
(* of the public operations, and makeRequest's bounded retry loop with its *)
(* classification of the outcome of every network attempt.                 *)
(*                                                                         *)
(* One call is followed from its invocation to its settlement.  A call     *)
(* suspends at three places: while an image is resolved (pc =              *)
(* "resolving"), while a request is in flight (pc = "awaiting") and while  *)
(* a backoff timer runs (pc = "sleeping").  The remote service, the file   *)
(* system and the transport are the environment: every image resolution    *)
(* and every attempt settles with an outcome chosen nondeterministically.  *)
(***************************************************************************)
EXTENDS Integers, Sequences, FiniteSets, TLC

VARIABLES
    maxRetries,   \* this.maxRetries, set once by the constructor
    pc,           \* "idle", "resolving", "awaiting", "sleeping" or "done"
    op,           \* the public operation that was called
    args,         \* the arguments it was called with
    request,      \* makeRequest's parameters: method, endpoint, data
    attempt,      \* makeRequest's loop index
    attempts,     \* number of requests handed to the transport
    outcomes,     \* how each of them settled, in order
    sleeps,       \* duration (ms) of every sleep() of the call, in order
    result,       \* how the call's promise settled
    contentParts, \* the `content` array an image operation has built so far
    imageIndex,   \* position in the image list of the image being resolved
    resolutions,  \* how each image resolution of the call settled, in order
    other         \* the frame of a second call on the same client

\* the local state of an image operation
imageVars == <<contentParts, imageIndex, resolutions>>

vars == <<maxRetries, pc, op, args, request, attempt, attempts, outcomes, sleeps, result,
          imageVars, other>>

----------------------------------------------------------------------------
(* Bounds of the model *)

\* largest configured maxRetries explored by Spec
MaxRetries == 3
\* longest text argument
MaxLen == 2
\* longest message list
MaxMsgs == 2
\* longest image list
MaxImages == 2
\* longest category list of one detection result
MaxCategories == 2

----------------------------------------------------------------------------
(* JavaScript values: a type tag (typeof) and a payload.  Strings are      *)
(* sequences of characters so that trim() is computed, not assumed.        *)

Undefined == [type |-> "undefined", val |-> <<>>]
Str(s) == [type |-> "string", val |-> s]
Num(n) == [type |-> "number", val |-> n]
Obj(r) == [type |-> "object", val |-> r]

\* JavaScript truthiness, as used by `!x`, `x && ...` and `x || y`
Truthy(v) ==
    CASE v.type = "undefined" -> FALSE
      [] v.type = "string" -> v.val # <<>>
      [] v.type = "number" -> v.val # 0
      [] OTHER -> TRUE

\* x || y
OrElse(x, y) == IF Truthy(x) THEN x ELSE y

\* String(v), the conversion a template literal `${v}` applies
Stringify(v) ==
    CASE v.type = "string" -> v.val
      [] v.type = "undefined" -> <<"undefined">>
      [] v.type = "number" -> <<ToString(v.val)>>
      [] OTHER -> <<"[object Object]">>

Whitespace == {" "}
Char == Whitespace \cup {"a"}
Strings(n) == UNION {[1..k -> Char] : k \in 0..n}

RECURSIVE trimStart(_)
trimStart(s) ==
    IF s = <<>> THEN <<>>
    ELSE IF Head(s) \in Whitespace THEN trimStart(Tail(s)) ELSE s

RECURSIVE trimEnd(_)
trimEnd(s) ==
    IF s = <<>> THEN <<>>
    ELSE IF s[Len(s)] \in Whitespace THEN trimEnd(SubSeq(s, 1, Len(s) - 1)) ELSE s

\* String.prototype.trim
trim(s) == trimEnd(trimStart(s))

----------------------------------------------------------------------------
(* Errors and settled promises *)

Message(template, status, arg) == [template |-> template, status |-> status, arg |-> arg]
Error(name, message) == [name |-> name, message |-> message]
NoError == Error("", Message("", 0, <<>>))

XiangxinAIError(template, status, arg) == Error("XiangxinAIError", Message(template, status, arg))
AuthenticationError(template) == Error("AuthenticationError", Message(template, 0, <<>>))
RateLimitError(template) == Error("RateLimitError", Message(template, 0, <<>>))
ValidationError(template, arg) == Error("ValidationError", Message(template, 0, arg))
NetworkError(template) == Error("NetworkError", Message(template, 0, <<>>))

\* faulty variant: NetworkError derives from Error directly
extendsNetworkPlain(class) ==
    CASE class = "XiangxinAIError" -> "Error"
      [] class \in {"AuthenticationError", "RateLimitError", "ValidationError",
                    "ServerError"} -> "XiangxinAIError"
      [] class \in {"TypeError", "AxiosError", "NetworkError"} -> "Error"
      [] OTHER -> "Object"

\* the class a class extends
extends(class) ==
    CASE class = "XiangxinAIError" -> "Error"
      [] class \in {"AuthenticationError", "RateLimitError", "ValidationError",
                    "NetworkError", "ServerError"} -> "XiangxinAIError"
      [] class \in {"TypeError", "AxiosError"} -> "Error"
      [] OTHER -> "Object"

\* error instanceof class, for an error constructed by class `name`
RECURSIVE instanceof(_, _)
instanceof(name, class) ==
    \/ name = class
    \/ name # "Object" /\ instanceof(extends(name), class)

Pending == [state |-> "pending", value |-> Undefined, error |-> NoError]
Resolved(v) == [state |-> "fulfilled", value |-> v, error |-> NoError]
Rejected(e) == [state |-> "rejected", value |-> Undefined, error |-> e]

----------------------------------------------------------------------------
(* createSafeResponse *)

NoRisk == [risk_level |-> "no_risk", categories |-> <<>>]

createSafeResponse ==
    Obj([id |-> "guardrails-safe-default",
         result |-> [compliance |-> NoRisk, security |-> NoRisk],
         overall_risk_level |-> "no_risk",
         suggest_action |-> "pass",
         suggest_answer |-> Undefined])

----------------------------------------------------------------------------
(* The environment: how one attempt (this.client.get / this.client.post)   *)
(* can settle.                                                             *)

\* a body the service issues for a check
ServiceVerdict ==
    Obj([id |-> "guardrails-8c1e",
         result |-> [compliance |-> [risk_level |-> "high_risk", categories |-> <<"violent crime">>],
                     security |-> NoRisk],
         overall_risk_level |-> "high_risk",
         suggest_action |-> "reject",
         suggest_answer |-> Str(<<"a">>)])
\* a body that is not an object
TextBody == Str(<<"a", "a">>)
Bodies == {ServiceVerdict, TextBody}

\* response.data of an error response: with a detail (a text, an empty text,
\* a structured value), without a detail, and a raw text body
ErrorData ==
    {Obj([detail |-> Str(<<"a">>)]), Obj([detail |-> Str(<<>>)]),
     Obj([detail |-> Obj([loc |-> "body"])]),
     Obj([detail |-> Undefined]), Str(<<"a", " ">>)}

Fulfilled(body) ==
    [settled |-> "fulfilled", isAxiosError |-> FALSE, hasResponse |-> TRUE,
     status |-> 200, data |-> body, code |-> "", name |-> ""]
\* AxiosError with a response: the status is outside 2xx
HttpError(status, data) ==
    [settled |-> "rejected", isAxiosError |-> TRUE, hasResponse |-> TRUE,
     status |-> status, data |-> data, code |-> "ERR_BAD_RESPONSE", name |-> "AxiosError"]
\* AxiosError without a response
TransportError(code) ==
    [settled |-> "rejected", isAxiosError |-> TRUE, hasResponse |-> FALSE,
     status |-> 0, data |-> Undefined, code |-> code, name |-> "AxiosError"]
\* anything else thrown inside the try block
Thrown(name) ==
    [settled |-> "rejected", isAxiosError |-> FALSE, hasResponse |-> FALSE,
     status |-> 0, data |-> Undefined, code |-> "", name |-> name,
     message |-> Message("", 0, <<>>)]

\* an error object thrown inside the try block
Raised(e) == [Thrown(e.name) EXCEPT !.message = e.message]

Outcomes ==
    {Fulfilled(b) : b \in Bodies}
    \cup {HttpError(s, Obj([detail |-> Undefined])) : s \in {401, 429}}
    \cup {HttpError(s, d) : s \in {404, 422, 500}, d \in ErrorData}
    \cup {TransportError(c) : c \in {"ECONNABORTED", "ECONNREFUSED"}}
    \cup {Thrown("TypeError")}

----------------------------------------------------------------------------
(* makeRequest: classification of a failed attempt (the catch block)       *)

Throw(e) == [do |-> "throw", error |-> e, ms |-> 0]
SleepThenContinue(ms) == [do |-> "sleep", error |-> NoError, ms |-> ms]

\* faulty variant: the comparison admits one retry too many
retriesRemainInclusive(a) == a <= maxRetries

\* faulty variant: a retry is always granted
retriesRemainAlways(a) == TRUE

\* attempt < this.maxRetries
retriesRemain(a) == a < maxRetries

\* faulty variant: the backoff without its one-second floor
waitTimeNoFloor(a) == (2 ^ a) * 1000

\* (2 ** attempt) * 1000 + 1000
waitTime(a) == (2 ^ a) * 1000 + 1000

\* faulty variant: the response's detail is ignored
on422Generic(data) ==
    Throw(ValidationError("Validation error: ${errorDetail}", <<"Validation error">>))

\* faulty variant: a 422 is retried after one second
on422Retry(data) == SleepThenContinue(1000)

\* status === 422
on422(data) ==
    LET detail == IF data.type = "object" THEN data.val.detail ELSE Undefined
        errorDetail == OrElse(detail, Str(<<"Validation error">>))
    IN  Throw(ValidationError("Validation error: ${errorDetail}", Stringify(errorDetail)))

\* faulty variant: the call gives up while one attempt remains
on429GiveUpEarly(a) ==
    IF a + 1 < maxRetries THEN SleepThenContinue(waitTime(a))
    ELSE Throw(RateLimitError("Rate limit exceeded"))

\* faulty variant: the backoff grows with the number of 429 responses the
\* call has had before, not with the loop index
on429CountingRateLimits(a) ==
    IF retriesRemain(a)
    THEN SleepThenContinue(waitTime(Cardinality({i \in 1..Len(outcomes) :
                                                  outcomes[i].status = 429})))
    ELSE Throw(RateLimitError("Rate limit exceeded"))

\* status === 429
on429(a) ==
    IF retriesRemain(a) THEN SleepThenContinue(waitTime(a))
    ELSE Throw(RateLimitError("Rate limit exceeded"))

\* any other status
onOtherStatus(status, data) ==
    LET detail == IF data.type = "object" THEN data.val.detail ELSE Undefined
        errorMsg == OrElse(detail, data)
    IN  Throw(XiangxinAIError("API request failed with status ${status}: ${errorMsg}",
                              status, Stringify(errorMsg)))

\* faulty variant: a 401 is retried like a 429
onResponseRetry401(status, data, a) ==
    IF status = 422 THEN on422(data)
    ELSE IF status = 429 \/ status = 401 THEN on429(a)
    ELSE onOtherStatus(status, data)

\* faulty variant: server errors (5xx) are retried
onResponseRetry5xx(status, data, a) ==
    IF status = 401 THEN Throw(AuthenticationError("Invalid API key"))
    ELSE IF status = 422 THEN on422(data)
    ELSE IF status = 429 THEN on429(a)
    ELSE IF status >= 500 /\ retriesRemain(a) THEN SleepThenContinue(1000)
    ELSE onOtherStatus(status, data)

\* axiosError.response is set
onResponse(status, data, a) ==
    IF status = 401 THEN Throw(AuthenticationError("Invalid API key"))
    ELSE IF status = 422 THEN on422(data)
    ELSE IF status = 429 THEN on429(a)
    ELSE onOtherStatus(status, data)

\* faulty variant: an exhausted timeout is reported as a network error
onTimeoutAsNetwork(a) ==
    IF retriesRemain(a) THEN SleepThenContinue(1000)
    ELSE Throw(NetworkError("Connection error"))

\* faulty variant: a timeout is never retried
onTimeoutNoRetry(a) == Throw(XiangxinAIError("Request timeout", 0, <<>>))

\* axiosError.code === 'ECONNABORTED'
onTimeout(a) ==
    IF retriesRemain(a) THEN SleepThenContinue(1000)
    ELSE Throw(XiangxinAIError("Request timeout", 0, <<>>))

\* faulty variant: a network failure is never retried
onNetworkFailureNoRetry(a) == Throw(NetworkError("Connection error"))

\* faulty variant: at exhaustion the error is chosen by the first failure
\* of the call
onNetworkFailureByFirst(a) ==
    IF retriesRemain(a) THEN SleepThenContinue(1000)
    ELSE IF outcomes # <<>> /\ outcomes[1].status = 429
    THEN Throw(RateLimitError("Rate limit exceeded"))
    ELSE Throw(NetworkError("Connection error"))

\* an AxiosError with neither a response nor the timeout code
onNetworkFailure(a) ==
    IF retriesRemain(a) THEN SleepThenContinue(1000)
    ELSE Throw(NetworkError("Connection error"))

\* faulty variant: the client's own error classes are retried like the rest
onNonAxiosRetryAll(error, a) ==
    IF retriesRemain(a) THEN SleepThenContinue(1000)
    ELSE Throw(XiangxinAIError("Unexpected error: ${error}", 0, <<error.name>>))

\* an error that is no AxiosError
onNonAxios(error, a) ==
    IF error.name \in {"AuthenticationError", "ValidationError", "RateLimitError"}
    THEN Throw(Error(error.name, error.message))
    ELSE IF retriesRemain(a) THEN SleepThenContinue(1000)
    ELSE Throw(XiangxinAIError("Unexpected error: ${error}", 0, <<error.name>>))

catch(error, a) ==
    IF error.isAxiosError
    THEN IF error.hasResponse THEN onResponse(error.status, error.data, a)
         ELSE IF error.code = "ECONNABORTED" THEN onTimeout(a)
         ELSE onNetworkFailure(a)
    ELSE onNonAxios(error, a)

\* what the try block returns for a 2xx response
onSuccess(endpoint, response) ==
    IF endpoint \in {"/guardrails", "/guardrails/input", "/guardrails/output"}
       /\ response.data.type = "object"
    THEN response.data
    ELSE response.data

----------------------------------------------------------------------------
(* makeRequest: the loop *)

NoRequest == [method |-> "", endpoint |-> "", data |-> Undefined]

\* faulty variant: the loop stops one iteration early
loopConditionStrict(a) == a < maxRetries

\* attempt <= this.maxRetries
loopCondition(a) == a <= maxRetries

\* The loop head with index a: either the next request is handed to the
\* transport, or the loop ends and the function returns undefined.
forLoop(a) ==
    /\ attempt' = a
    /\ IF loopCondition(a)
       THEN /\ pc' = "awaiting"
            /\ attempts' = attempts + 1
            /\ result' = result
       ELSE /\ pc' = "done"
            /\ attempts' = attempts
            /\ result' = Resolved(Undefined)

makeRequest(method, endpoint, data) ==
    /\ request' = [method |-> method, endpoint |-> endpoint, data |-> data]
    /\ forLoop(0)
    /\ UNCHANGED <<outcomes, sleeps>>

\* a call that settles without entering makeRequest
settle(r) ==
    /\ pc' = "done"
    /\ result' = r
    /\ UNCHANGED <<request, attempt, attempts, outcomes, sleeps>>

\* The request in flight settles with outcome o.
Respond(o) ==
    /\ pc = "awaiting"
    /\ outcomes' = Append(outcomes, o)
    /\ IF o.settled = "fulfilled"
       THEN /\ pc' = "done"
            /\ result' = Resolved(onSuccess(request.endpoint, o))
            /\ sleeps' = sleeps
       ELSE LET d == catch(o, attempt) IN
            IF d.do = "throw"
            THEN /\ pc' = "done"
                 /\ result' = Rejected(d.error)
                 /\ sleeps' = sleeps
            ELSE /\ pc' = "sleeping"
                 /\ result' = result
                 /\ sleeps' = Append(sleeps, d.ms)
    /\ UNCHANGED <<maxRetries, op, args, request, attempt, attempts, imageVars, other>>

\* The timer of sleep() fires: `continue`, attempt++ and the loop head.
Wake ==
    /\ pc = "sleeping"
    /\ forLoop(attempt + 1)
    /\ UNCHANGED <<maxRetries, op, args, request, outcomes, sleeps, imageVars, other>>

----------------------------------------------------------------------------
(* Public operations *)

\* faulty variant: the content is tested without trimming
isBlankNoTrim(content) == ~Truthy(content)

\* !content || !content.trim()
isBlank(content) == ~Truthy(content) \/ ~Truthy(Str(trim(content.val)))

checkPrompt(content, userId) ==
    /\ pc = "idle"
    /\ op' = "checkPrompt"
    /\ args' = [content |-> content, userId |-> userId]
    /\ IF isBlank(content)
       THEN settle(Resolved(createSafeResponse))
       ELSE makeRequest("POST", "/guardrails/input",
                        [input |-> Str(trim(content.val)),
                         xxai_app_user_id |-> IF Truthy(userId) THEN userId ELSE Undefined])
    /\ UNCHANGED <<maxRetries, imageVars, other>>

\* faulty variant: one more role is accepted
ValidRolesWithTool ==
    {Str(<<"user">>), Str(<<"system">>), Str(<<"assistant">>), Str(<<"tool">>)}

\* ['user', 'system', 'assistant']
ValidRoles == {Str(<<"user">>), Str(<<"system">>), Str(<<"assistant">>)}

\* faulty variant: a message's content counts as non-empty without trimming
RECURSIVE validateMessagesNoTrim(_, _, _)
validateMessagesNoTrim(msgs, validatedMessages, allEmpty) ==
    IF msgs = <<>>
    THEN [error |-> NoError, validatedMessages |-> validatedMessages, allEmpty |-> allEmpty]
    ELSE LET msg == Head(msgs) IN
         IF msg.type # "object" \/ ~Truthy(msg.val.role) \/ msg.val.content.type # "string"
         THEN [error |-> ValidationError("Each message must have 'role' and 'content' fields", <<>>),
               validatedMessages |-> validatedMessages, allEmpty |-> allEmpty]
         ELSE IF msg.val.role \notin ValidRoles
         THEN [error |-> ValidationError("role must be one of: user, system, assistant", <<>>),
               validatedMessages |-> validatedMessages, allEmpty |-> allEmpty]
         ELSE IF Truthy(msg.val.content)
         THEN validateMessagesNoTrim(Tail(msgs),
                                     Append(validatedMessages,
                                            Obj([role |-> msg.val.role, content |-> msg.val.content])),
                                     FALSE)
         ELSE validateMessagesNoTrim(Tail(msgs), validatedMessages, allEmpty)

\* faulty variant: the content is trimmed before it is sent
RECURSIVE validateMessagesTrimmed(_, _, _)
validateMessagesTrimmed(msgs, validatedMessages, allEmpty) ==
    IF msgs = <<>>
    THEN [error |-> NoError, validatedMessages |-> validatedMessages, allEmpty |-> allEmpty]
    ELSE LET msg == Head(msgs) IN
         IF msg.type # "object" \/ ~Truthy(msg.val.role) \/ msg.val.content.type # "string"
         THEN [error |-> ValidationError("Each message must have 'role' and 'content' fields", <<>>),
               validatedMessages |-> validatedMessages, allEmpty |-> allEmpty]
         ELSE IF msg.val.role \notin {Str(<<"user">>), Str(<<"system">>), Str(<<"assistant">>)}
         THEN [error |-> ValidationError("role must be one of: user, system, assistant", <<>>),
               validatedMessages |-> validatedMessages, allEmpty |-> allEmpty]
         ELSE IF Truthy(msg.val.content) /\ Truthy(Str(trim(msg.val.content.val)))
         THEN validateMessagesTrimmed(Tail(msgs),
                                      Append(validatedMessages,
                                             Obj([role |-> msg.val.role,
                                                  content |-> Str(trim(msg.val.content.val))])),
                                      FALSE)
         ELSE validateMessagesTrimmed(Tail(msgs), validatedMessages, allEmpty)

\* faulty variant: allEmpty is cleared by any non-empty content, blank or
\* not, while only non-blank messages are kept
RECURSIVE validateMessagesFlagEarly(_, _, _)
validateMessagesFlagEarly(msgs, validatedMessages, allEmpty) ==
    IF msgs = <<>>
    THEN [error |-> NoError, validatedMessages |-> validatedMessages, allEmpty |-> allEmpty]
    ELSE LET msg == Head(msgs) IN
         IF msg.type # "object" \/ ~Truthy(msg.val.role) \/ msg.val.content.type # "string"
         THEN [error |-> ValidationError("Each message must have 'role' and 'content' fields", <<>>),
               validatedMessages |-> validatedMessages, allEmpty |-> allEmpty]
         ELSE IF msg.val.role \notin {Str(<<"user">>), Str(<<"system">>), Str(<<"assistant">>)}
         THEN [error |-> ValidationError("role must be one of: user, system, assistant", <<>>),
               validatedMessages |-> validatedMessages, allEmpty |-> allEmpty]
         ELSE IF Truthy(msg.val.content) /\ Truthy(Str(trim(msg.val.content.val)))
         THEN validateMessagesFlagEarly(Tail(msgs),
                                        Append(validatedMessages,
                                               Obj([role |-> msg.val.role,
                                                    content |-> msg.val.content])),
                                        FALSE)
         ELSE validateMessagesFlagEarly(Tail(msgs), validatedMessages,
                                        allEmpty /\ ~Truthy(msg.val.content))

\* The validation loop of checkConversation over the messages still to be
\* visited: it ends with the first error thrown, or with validatedMessages
\* and allEmpty as the loop leaves them.
RECURSIVE validateMessages(_, _, _)
validateMessages(msgs, validatedMessages, allEmpty) ==
    IF msgs = <<>>
    THEN [error |-> NoError, validatedMessages |-> validatedMessages, allEmpty |-> allEmpty]
    ELSE LET msg == Head(msgs) IN
         IF msg.type # "object" \/ ~Truthy(msg.val.role) \/ msg.val.content.type # "string"
         THEN [error |-> ValidationError("Each message must have 'role' and 'content' fields", <<>>),
               validatedMessages |-> validatedMessages, allEmpty |-> allEmpty]
         ELSE IF msg.val.role \notin ValidRoles
         THEN [error |-> ValidationError("role must be one of: user, system, assistant", <<>>),
               validatedMessages |-> validatedMessages, allEmpty |-> allEmpty]
         ELSE IF Truthy(msg.val.content) /\ Truthy(Str(trim(msg.val.content.val)))
         THEN validateMessages(Tail(msgs),
                               Append(validatedMessages,
                                      Obj([role |-> msg.val.role, content |-> msg.val.content])),
                               FALSE)
         ELSE validateMessages(Tail(msgs), validatedMessages, allEmpty)

\* a parameter's default value applies when the argument is undefined
withDefault(arg, default) == IF arg.type = "undefined" THEN default ELSE arg

\* faulty variant: the user id is put at the top level of the body
guardrailRequestTopLevel(model, messages, userId) ==
    [model |-> model,
     messages |-> messages,
     extra_body |-> Undefined,
     xxai_app_user_id |-> IF Truthy(userId) THEN userId ELSE Undefined]

\* requestData of the operations that post to /guardrails
guardrailRequest(model, messages, userId) ==
    [model |-> model,
     messages |-> messages,
     extra_body |-> IF Truthy(userId) THEN Obj([xxai_app_user_id |-> userId]) ELSE Undefined]

\* messages is undefined or a list (a sequence of elements)
checkConversation(messages, model, userId) ==
    /\ pc = "idle"
    /\ op' = "checkConversation"
    /\ args' = [messages |-> messages, model |-> model, userId |-> userId]
    /\ IF ~Truthy(messages) \/ messages.val = <<>>
       THEN settle(Rejected(ValidationError("Messages cannot be empty", <<>>)))
       ELSE LET v == validateMessages(messages.val, <<>>, TRUE) IN
            IF v.error # NoError THEN settle(Rejected(v.error))
            ELSE IF v.allEmpty THEN settle(Resolved(createSafeResponse))
            ELSE IF Len(v.validatedMessages) = 0 THEN settle(Resolved(createSafeResponse))
            ELSE makeRequest("POST", "/guardrails",
                             guardrailRequest(withDefault(model, Str(<<"Xiangxin-Guardrails-Text">>)),
                                              v.validatedMessages, userId))
    /\ UNCHANGED <<maxRetries, imageVars, other>>

healthCheck ==
    /\ pc = "idle"
    /\ op' = "healthCheck"
    /\ args' = <<>>
    /\ makeRequest("GET", "/guardrails/health", Undefined)
    /\ UNCHANGED <<maxRetries, imageVars, other>>

getModels ==
    /\ pc = "idle"
    /\ op' = "getModels"
    /\ args' = <<>>
    /\ makeRequest("GET", "/guardrails/models", Undefined)
    /\ UNCHANGED <<maxRetries, imageVars, other>>

\* faulty variant: the short-circuit is taken as soon as one side is blank
bothBlankEither(prompt, response) == isBlank(prompt) \/ isBlank(response)

\* (!prompt || !prompt.trim()) && (!response || !response.trim())
bothBlank(prompt, response) == isBlank(prompt) /\ isBlank(response)

\* prompt ? prompt.trim() : ''
trimOrEmpty(text) == IF Truthy(text) THEN Str(trim(text.val)) ELSE Str(<<>>)

checkResponseCtx(prompt, response, userId) ==
    /\ pc = "idle"
    /\ op' = "checkResponseCtx"
    /\ args' = [prompt |-> prompt, response |-> response, userId |-> userId]
    /\ IF bothBlank(prompt, response)
       THEN settle(Resolved(createSafeResponse))
       ELSE makeRequest("POST", "/guardrails/output",
                        [input |-> trimOrEmpty(prompt),
                         output |-> trimOrEmpty(response),
                         xxai_app_user_id |-> IF Truthy(userId) THEN userId ELSE Undefined])
    /\ UNCHANGED <<maxRetries, imageVars, other>>

----------------------------------------------------------------------------
(* Image operations.  An image reference is a string whose first element   *)
(* is its scheme prefix when it has one.  Resolving a reference suspends   *)
(* the call (pc = "resolving") until the fetch or the file read settles.   *)

\* imagePath.startsWith('http://') || imagePath.startsWith('https://')
startsWithHttp(imagePath) ==
    imagePath.val # <<>> /\ Head(imagePath.val) \in {"http://", "https://"}

\* a settled encodeBase64FromPath: the base64 text, or the error's code
Encoded(via, base64) == [settled |-> "fulfilled", via |-> via, base64 |-> base64, code |-> ""]
EncodeFailed(via, code) == [settled |-> "rejected", via |-> via, base64 |-> "", code |-> code]

\* The ways encodeBase64FromPath(imagePath) can settle: a URL is fetched
\* over HTTP, anything else is read as a local file (the empty path names
\* no file).  The remote image and the local file have different bytes.
encodeBase64FromPath(imagePath) ==
    IF startsWithHttp(imagePath)
    THEN {Encoded("http", "dXJs"), EncodeFailed("http", "ERR_BAD_REQUEST"),
          EncodeFailed("http", "ENOTFOUND")}
    ELSE IF imagePath.val = <<>>
    THEN {EncodeFailed("file", "ENOENT")}
    ELSE {Encoded("file", "ZmlsZQ=="), EncodeFailed("file", "ENOENT"),
          EncodeFailed("file", "EACCES")}

\* faulty variant: the text part is pushed whatever the prompt is
textPartsAlways(prompt) ==
    <<Obj([type |-> Str(<<"text">>), text |-> trimOrEmpty(prompt)])>>

\* if (prompt && prompt.trim()) content.push({type: 'text', text: prompt.trim()})
textParts(prompt) ==
    IF Truthy(prompt) /\ Truthy(Str(trim(prompt.val)))
    THEN <<Obj([type |-> Str(<<"text">>), text |-> Str(trim(prompt.val))])>>
    ELSE <<>>

imagePart(imageBase64) ==
    Obj([type |-> Str(<<"image_url">>),
         image_url |-> Obj([url |-> Str(<<"data:image/jpeg;base64,", imageBase64>>)])])

\* messages = [{role: 'user', content: content}]
userMessages(parts) == <<Obj([role |-> Str(<<"user">>), content |-> Obj(parts)])>>

\* faulty variant: a missing file is reported like any other failure
encodeErrorGeneric(operation, imagePath, error) ==
    IF operation = "checkPromptImage"
    THEN XiangxinAIError("Failed to encode image: ${error.message}", 0, <<error.code>>)
    ELSE XiangxinAIError("Failed to encode image ${imagePath}: ${error.message}", 0,
                         <<imagePath.val, error.code>>)

\* faulty variant: every resolution failure is reported as a missing file
encodeErrorAlwaysValidation(operation, imagePath, error) ==
    ValidationError("Image file not found: ${image}", imagePath.val)

\* the catch blocks around encodeBase64FromPath
encodeError(operation, imagePath, error) ==
    IF error.code = "ENOENT"
    THEN ValidationError("Image file not found: ${image}", imagePath.val)
    ELSE IF operation = "checkPromptImage"
    THEN XiangxinAIError("Failed to encode image: ${error.message}", 0, <<error.code>>)
    ELSE XiangxinAIError("Failed to encode image ${imagePath}: ${error.message}", 0,
                         <<imagePath.val, error.code>>)

checkPromptImage(prompt, image, model, userId) ==
    /\ pc = "idle"
    /\ op' = "checkPromptImage"
    /\ args' = [prompt |-> prompt, images |-> Obj(<<image>>), model |-> model,
                userId |-> userId]
    /\ IF ~Truthy(image)
       THEN /\ settle(Rejected(ValidationError("Image path cannot be empty", <<>>)))
            /\ UNCHANGED imageVars
       ELSE /\ pc' = "resolving"
            /\ imageIndex' = 1
            /\ UNCHANGED <<request, attempt, attempts, outcomes, sleeps, result,
                           contentParts, resolutions>>
    /\ UNCHANGED <<maxRetries, other>>

\* faulty variant: an empty list passes
noImagesMissingOnly(images) == ~Truthy(images)

\* !images || images.length === 0
noImages(images) == ~Truthy(images) \/ images.val = <<>>

\* images is undefined or a list of references
checkPromptImages(prompt, images, model, userId) ==
    /\ pc = "idle"
    /\ op' = "checkPromptImages"
    /\ args' = [prompt |-> prompt, images |-> images, model |-> model, userId |-> userId]
    /\ IF noImages(images)
       THEN /\ settle(Rejected(ValidationError("Images list cannot be empty", <<>>)))
            /\ UNCHANGED imageVars
       ELSE /\ pc' = "resolving"
            /\ contentParts' = textParts(prompt)
            /\ imageIndex' = 1
            /\ UNCHANGED <<request, attempt, attempts, outcomes, sleeps, result,
                           resolutions>>
    /\ UNCHANGED <<maxRetries, other>>

\* faulty variant: an image that fails to resolve is left out and the
\* call goes on with the next one
ResolveSkippingFailures ==
    /\ pc = "resolving"
    /\ LET imagePath == args.images.val[imageIndex] IN
       \E o \in encodeBase64FromPath(imagePath) :
          /\ resolutions' = Append(resolutions, [imagePath |-> imagePath, outcome |-> o])
          /\ LET parts == IF o.settled = "rejected" THEN contentParts
                          ELSE IF op = "checkPromptImage"
                          THEN textParts(args.prompt) \o <<imagePart(o.base64)>>
                          ELSE Append(contentParts, imagePart(o.base64))
             IN /\ contentParts' = parts
                /\ IF imageIndex < Len(args.images.val)
                   THEN /\ imageIndex' = imageIndex + 1
                        /\ UNCHANGED <<pc, request, attempt, attempts, outcomes,
                                       sleeps, result>>
                   ELSE /\ imageIndex' = imageIndex
                        /\ makeRequest("POST", "/guardrails",
                               guardrailRequest(
                                   withDefault(args.model, Str(<<"Xiangxin-Guardrails-VL">>)),
                                   userMessages(parts), args.userId))
    /\ UNCHANGED <<maxRetries, op, args, other>>

\* The pending encodeBase64FromPath settles.  checkPromptImage builds its
\* content after its only image; checkPromptImages appends the image and
\* goes on with the next one.  After the last image the request is made.
Resolve ==
    /\ pc = "resolving"
    /\ LET imagePath == args.images.val[imageIndex] IN
       \E o \in encodeBase64FromPath(imagePath) :
          /\ resolutions' = Append(resolutions, [imagePath |-> imagePath, outcome |-> o])
          /\ IF o.settled = "rejected"
             THEN /\ settle(Rejected(encodeError(op, imagePath, o)))
                  /\ UNCHANGED <<contentParts, imageIndex>>
             ELSE LET parts == IF op = "checkPromptImage"
                               THEN textParts(args.prompt) \o <<imagePart(o.base64)>>
                               ELSE Append(contentParts, imagePart(o.base64))
                  IN /\ contentParts' = parts
                     /\ IF imageIndex < Len(args.images.val)
                        THEN /\ imageIndex' = imageIndex + 1
                             /\ UNCHANGED <<pc, request, attempt, attempts, outcomes,
                                            sleeps, result>>
                        ELSE /\ imageIndex' = imageIndex
                             /\ makeRequest("POST", "/guardrails",
                                    guardrailRequest(
                                        withDefault(args.model, Str(<<"Xiangxin-Guardrails-VL">>)),
                                        userMessages(parts), args.userId))
    /\ UNCHANGED <<maxRetries, op, args, other>>

----------------------------------------------------------------------------
(* GuardrailResponseHelper *)

\* Array.from(new Set(xs)): the elements of xs in the order of their first
\* occurrence; seen holds the elements already taken
RECURSIVE arrayFromSet(_, _)
arrayFromSet(xs, seen) ==
    IF xs = <<>> THEN seen
    ELSE IF \E i \in 1..Len(seen) : seen[i] = Head(xs)
    THEN arrayFromSet(Tail(xs), seen)
    ELSE arrayFromSet(Tail(xs), Append(seen, Head(xs)))

\* response.result.data: undefined when the field is missing
dataOf(res) == IF "data" \in DOMAIN res THEN res.data ELSE Undefined

\* faulty variant: the categories are returned as pushed
allCategoriesWithDuplicates(response) ==
    LET res == response.val.result IN
    res.compliance.categories \o res.security.categories
       \o (IF Truthy(dataOf(res)) THEN dataOf(res).val.categories ELSE <<>>)

\* the value getAllCategories returns
allCategories(response) ==
    LET res == response.val.result
        categories == res.compliance.categories \o res.security.categories
                         \o (IF Truthy(dataOf(res)) THEN dataOf(res).val.categories ELSE <<>>)
    IN  arrayFromSet(categories, <<>>)

\* a synchronous call of the helper on a response
getAllCategories(response) ==
    /\ pc = "idle"
    /\ op' = "getAllCategories"
    /\ args' = [response |-> response]
    /\ settle(Resolved(Obj(allCategories(response))))
    /\ UNCHANGED <<maxRetries, imageVars, other>>

----------------------------------------------------------------------------
(* Specifications *)

\* a call that has not been made yet
IdleCall ==
    [pc |-> "idle", op |-> "", args |-> <<>>, request |-> NoRequest, attempt |-> 0,
     attempts |-> 0, outcomes |-> <<>>, sleeps |-> <<>>, result |-> Pending,
     contentParts |-> <<>>, imageIndex |-> 0, resolutions |-> <<>>]

\* the constructor: maxRetries is taken from the configuration unchecked
constructor(configured) ==
    /\ maxRetries = configured
    /\ pc = "idle"
    /\ op = ""
    /\ args = <<>>
    /\ request = NoRequest
    /\ attempt = 0
    /\ attempts = 0
    /\ outcomes = <<>>
    /\ sleeps = <<>>
    /\ result = Pending
    /\ contentParts = <<>>
    /\ imageIndex = 0
    /\ resolutions = <<>>
    /\ other = IdleCall

\* arguments of the calls
UserIds == {Undefined, Str(<<>>), Str(<<"a">>)}
Contents == {Undefined} \cup {Str(s) : s \in Strings(MaxLen)}

\* Spec follows checkPrompt, healthCheck and getModels through the retry
\* loop for every configured budget up to MaxRetries (and a negative one).
Init == \E m \in (-1)..MaxRetries : constructor(m)

Next ==
    \/ /\ pc = "idle"
       /\ \E c \in Contents, u \in UserIds : checkPrompt(c, u)
    \/ healthCheck
    \/ getModels
    \/ \E o \in Outcomes : Respond(o)
    \/ Wake

Spec == Init /\ [][Next]_vars

\* SpecConversation follows checkConversation over every message list up to
\* MaxMsgs elements, with budgets of at most one retry.
MessageRoles == ValidRoles \cup {Undefined, Str(<<"tool">>)}
MessageContents == {Num(7), Str(<<>>), Str(<<" ">>), Str(<<" ", "a">>)}
MessageElements ==
    {Obj([role |-> r, content |-> c]) : r \in MessageRoles, c \in MessageContents}
MessageLists ==
    {Undefined} \cup {Obj(l) : l \in UNION {[1..k -> MessageElements] : k \in 0..MaxMsgs}}
Models == {Undefined, Str(<<"custom-model">>)}

InitConversation == \E m \in {-1, 0, 1} : constructor(m)

NextConversation ==
    \/ /\ pc = "idle"
       /\ \E l \in MessageLists, m \in Models, u \in {Undefined, Str(<<"a">>)} :
             checkConversation(l, m, u)
    \/ \E o \in Outcomes : Respond(o)
    \/ Wake

SpecConversation == InitConversation /\ [][NextConversation]_vars

\* SpecOperations follows every public operation, with budgets of at most
\* one retry.
Prompts == {Undefined, Str(<<>>), Str(<<" ">>), Str(<<" ", "a">>)}
ImagePaths == {Str(<<>>), Str(<<"/img/a.jpg">>), Str(<<"http://", "host/a.jpg">>)}
ImageLists ==
    {Undefined} \cup {Obj(l) : l \in UNION {[1..k -> ImagePaths] : k \in 0..MaxImages}}
ImageModels == {Undefined, Str(<<"custom-vl">>)}

InitOperations == \E m \in {-1, 0, 1} : constructor(m)

NextOperations ==
    \/ /\ pc = "idle"
       /\ \E c \in Contents, u \in UserIds : checkPrompt(c, u)
    \/ /\ pc = "idle"
       /\ \E p \in Contents, r \in Contents, u \in {Undefined, Str(<<"a">>)} :
             checkResponseCtx(p, r, u)
    \/ /\ pc = "idle"
       /\ \E l \in MessageLists, m \in Models, u \in {Undefined, Str(<<"a">>)} :
             checkConversation(l, m, u)
    \/ /\ pc = "idle"
       /\ \E p \in Prompts, i \in ImagePaths \cup {Undefined}, m \in ImageModels,
             u \in UserIds : checkPromptImage(p, i, m, u)
    \/ /\ pc = "idle"
       /\ \E p \in Prompts, l \in ImageLists, m \in ImageModels,
             u \in {Undefined, Str(<<"a">>)} : checkPromptImages(p, l, m, u)
    \/ healthCheck
    \/ getModels
    \/ Resolve
    \/ \E o \in Outcomes : Respond(o)
    \/ Wake

SpecOperations == InitOperations /\ [][NextOperations]_vars

\* SpecRaised follows healthCheck and getModels over a transport that can
\* also throw the client's own error classes from inside an attempt.
RaisedOutcomes ==
    {Raised(AuthenticationError("raised inside the attempt")),
     Raised(ValidationError("raised inside the attempt", <<>>)),
     Raised(RateLimitError("raised inside the attempt"))}

InitRaised == \E m \in 0..MaxRetries : constructor(m)

NextRaised ==
    \/ healthCheck
    \/ getModels
    \/ \E o \in Outcomes \cup RaisedOutcomes : Respond(o)
    \/ Wake

SpecRaised == InitRaised /\ [][NextRaised]_vars

\* SpecCategories applies getAllCategories to every response whose
\* category lists have at most MaxCategories entries, with and without
\* the data result, and to the synthetic safe response.
Categories == {"S1", "S2"}
CategoryLists == UNION {[1..k -> Categories] : k \in 0..MaxCategories}
Responses ==
    {createSafeResponse}
    \cup {Obj([id |-> "guardrails-8c1e",
               result |-> [compliance |-> [risk_level |-> "high_risk", categories |-> c],
                           security |-> [risk_level |-> "no_risk", categories |-> s],
                           data |-> d],
               overall_risk_level |-> "high_risk",
               suggest_action |-> "reject",
               suggest_answer |-> Undefined]) :
          c \in CategoryLists, s \in CategoryLists,
          d \in {Undefined} \cup {Obj([risk_level |-> "low_risk", categories |-> l]) :
                                    l \in CategoryLists}}

InitCategories == constructor(3)

NextCategories ==
    /\ pc = "idle"
    /\ \E r \in Responses : getAllCategories(r)

SpecCategories == InitCategories /\ [][NextCategories]_vars

\* SpecTermination follows healthCheck and getModels on a client whose
\* maxRetries is not negative.  Every request settles (the transport has a
\* timeout, set by the constructor) and every timer of sleep() fires.
InitTermination == \E m \in 0..MaxRetries : constructor(m)

NextTermination ==
    \/ healthCheck
    \/ getModels
    \/ \E o \in Outcomes : Respond(o)
    \/ Wake

SpecTermination ==
    /\ InitTermination
    /\ [][NextTermination]_vars
    /\ WF_vars(\E o \in Outcomes : Respond(o))
    /\ WF_vars(Wake)

\* SpecConcurrent follows two calls on one client.  The variables of a call
\* are the locals of the call that is running; the other call waits in
\* `other`, suspended at an await, not yet made, or settled.  Control passes
\* from one call to the other only where the running call awaits.

\* the locals of the running call
frame ==
    [pc |-> pc, op |-> op, args |-> args, request |-> request, attempt |-> attempt,
     attempts |-> attempts, outcomes |-> outcomes, sleeps |-> sleeps, result |-> result,
     contentParts |-> contentParts, imageIndex |-> imageIndex, resolutions |-> resolutions]

\* faulty variant: the loop index is a field of the client, shared by its
\* calls, instead of a local of makeRequest
resumeSharedAttempt(f) ==
    /\ pc' = f.pc
    /\ op' = f.op
    /\ args' = f.args
    /\ request' = f.request
    /\ attempt' = attempt
    /\ attempts' = f.attempts
    /\ outcomes' = f.outcomes
    /\ sleeps' = f.sleeps
    /\ result' = f.result
    /\ contentParts' = f.contentParts
    /\ imageIndex' = f.imageIndex
    /\ resolutions' = f.resolutions

\* the call with locals f runs again
resume(f) ==
    /\ pc' = f.pc
    /\ op' = f.op
    /\ args' = f.args
    /\ request' = f.request
    /\ attempt' = f.attempt
    /\ attempts' = f.attempts
    /\ outcomes' = f.outcomes
    /\ sleeps' = f.sleeps
    /\ result' = f.result
    /\ contentParts' = f.contentParts
    /\ imageIndex' = f.imageIndex
    /\ resolutions' = f.resolutions

\* The running call awaits (or has settled) and the event loop turns to
\* the other call.
Switch ==
    /\ pc # "idle"
    /\ other' = frame
    /\ resume(other)
    /\ UNCHANGED maxRetries

InitConcurrent == \E m \in {0, 1, 2} : constructor(m)

NextConcurrent ==
    \/ healthCheck
    \/ getModels
    \/ \E o \in Outcomes : Respond(o)
    \/ Wake
    \/ Switch

SpecConcurrent == InitConcurrent /\ [][NextConcurrent]_vars

----------------------------------------------------------------------------
(* Vocabulary of the properties *)

Is429(o) == o.isAxiosError /\ o.hasResponse /\ o.status = 429
IsStatus(o, s) == o.isAxiosError /\ o.hasResponse /\ o.status = s
IsTimeout(o) == o.isAxiosError /\ ~o.hasResponse /\ o.code = "ECONNABORTED"
IsNetworkFailure(o) == o.isAxiosError /\ ~o.hasResponse /\ o.code # "ECONNABORTED"
IsOtherStatus(o) == o.isAxiosError /\ o.hasResponse /\ o.status \notin {401, 422, 429}

\* the backoff durations after k consecutive 429 responses from attempt 0 on
Backoff(k) == [i \in 1..k |-> (2 ^ (i - 1)) * 1000 + 1000]

AllWhitespace(s) == \A i \in 1..Len(s) : s[i] \in Whitespace

IsSafeVerdict(r) ==
    /\ r.state = "fulfilled"
    /\ r.value.type = "object"
    /\ r.value.val.id = "guardrails-safe-default"
    /\ r.value.val.suggest_action = "pass"
    /\ r.value.val.overall_risk_level = "no_risk"

InMakeRequest == request # NoRequest

----------------------------------------------------------------------------
(* Properties of the retry loop (checked under Spec) *)

\* C1: while the service has answered every attempt so far with 429 and
\* retries remain, the call is still running and has slept exactly the
\* durations (2^i)*1000+1000, i = 0, 1, ... in order; and when k 429s are
\* followed by a 2xx, the call is done after exactly k sleeps of those
\* durations and k+1 attempts, resolved with the body of the last response.
C1_BackoffThenSuccess ==
    LET n == Len(outcomes) IN
    InMakeRequest =>
      /\ ((\A i \in 1..n : Is429(outcomes[i])) /\ n <= maxRetries) =>
            /\ pc \in {"awaiting", "sleeping"}
            /\ sleeps = Backoff(n)
            /\ attempts = IF pc = "awaiting" THEN n + 1 ELSE n
      /\ (n >= 1 /\ (\A i \in 1..(n - 1) : Is429(outcomes[i]))
                 /\ outcomes[n].settled = "fulfilled") =>
            /\ pc = "done"
            /\ sleeps = Backoff(n - 1)
            /\ attempts = n
            /\ result = Resolved(outcomes[n].data)

\* the responses [429, 429, 200] gave sleeps of 2000 ms then 3000 ms
C1_Witness ==
    /\ pc = "done"
    /\ [i \in 1..Len(outcomes) |-> outcomes[i].status] = <<429, 429, 200>>
    /\ sleeps = <<2000, 3000>>
    /\ attempts = 3
    /\ result.state = "fulfilled"

\* C2: with maxRetries >= 0 a call makes at most maxRetries + 1 attempts, at
\* indices 0..maxRetries; every retry, whatever failed, advances the one
\* index (one sleep per retry); the default budget of 3 allows 4 attempts.
C2_AttemptBudget ==
    maxRetries >= 0 =>
      /\ attempts <= maxRetries + 1
      /\ attempt \in 0..maxRetries
      /\ Len(outcomes) <= attempts
      /\ InMakeRequest => (attempts = attempt + 1 /\ Len(sleeps) \in {attempt, attempt + 1})
      /\ maxRetries = 3 => attempts <= 4

\* the default budget used up by a timeout, a 429, a network failure and a success
C2_Witness ==
    /\ maxRetries = 3
    /\ attempts = 4
    /\ Len(outcomes) = 4
    /\ IsTimeout(outcomes[1])
    /\ Is429(outcomes[2])
    /\ IsNetworkFailure(outcomes[3])
    /\ outcomes[4].settled = "fulfilled"

\* C3: a 401 at any attempt ends the call at once with AuthenticationError:
\* it is the last outcome, no sleep and no attempt follows it.
C3_AuthenticationFailsAtOnce ==
    \A i \in 1..Len(outcomes) :
      IsStatus(outcomes[i], 401) =>
        /\ i = Len(outcomes)
        /\ pc = "done"
        /\ result = Rejected(AuthenticationError("Invalid API key"))
        /\ attempts = i
        /\ Len(sleeps) = i - 1

\* a 401 on the second attempt, with retries left
C3_Witness ==
    /\ pc = "done"
    /\ Len(outcomes) = 2
    /\ IsStatus(outcomes[2], 401)
    /\ attempt < maxRetries
    /\ result.error.name = "AuthenticationError"

\* C4: when all maxRetries + 1 attempts are answered with 429 the call
\* fails with RateLimitError after exactly maxRetries sleeps of durations
\* (2^i)*1000+1000, none after the last 429; RateLimitError is raised only
\* at attempt index maxRetries.
C4_RateLimitAfterExhaustion ==
    LET n == Len(outcomes) IN
    /\ (n >= 1 /\ n = maxRetries + 1 /\ \A i \in 1..n : Is429(outcomes[i])) =>
          /\ pc = "done"
          /\ result = Rejected(RateLimitError("Rate limit exceeded"))
          /\ sleeps = Backoff(maxRetries)
          /\ attempts = maxRetries + 1
    /\ result.error.name = "RateLimitError" =>
          /\ attempt = maxRetries
          /\ n = maxRetries + 1
          /\ Is429(outcomes[n])

\* the default budget: four 429s, sleeps of 2000, 3000 and 5000 ms
C4_Witness ==
    /\ maxRetries = 3
    /\ pc = "done"
    /\ \A i \in 1..Len(outcomes) : Is429(outcomes[i])
    /\ sleeps = <<2000, 3000, 5000>>
    /\ result.error.name = "RateLimitError"

\* C5: a timeout at attempt index i < maxRetries is followed by a sleep of
\* exactly 1000 ms and then another attempt; at i = maxRetries the call
\* fails with the plain XiangxinAIError 'Request timeout'.
C5_Timeout ==
    \A j \in 1..Len(outcomes) :
      IsTimeout(outcomes[j]) =>
        IF j - 1 < maxRetries
        THEN /\ Len(sleeps) >= j
             /\ sleeps[j] = 1000
             /\ \/ pc = "sleeping" /\ j = Len(outcomes) /\ result = Pending
                \/ attempts >= j + 1
        ELSE /\ j = Len(outcomes)
             /\ pc = "done"
             /\ result = Rejected(XiangxinAIError("Request timeout", 0, <<>>))
             /\ result.error.name \notin {"NetworkError", "RateLimitError"}
             /\ Len(sleeps) = j - 1

\* one retry allowed: a timeout retried after 1000 ms, then a final timeout
C5_Witness ==
    /\ maxRetries = 1
    /\ pc = "done"
    /\ Len(outcomes) = 2
    /\ IsTimeout(outcomes[1])
    /\ IsTimeout(outcomes[2])
    /\ sleeps = <<1000>>
    /\ result.error.message.template = "Request timeout"

\* C6: a transport failure without response that is no timeout, at attempt
\* index i < maxRetries, is followed by a sleep of exactly 1000 ms and then
\* another attempt; at i = maxRetries the call fails with NetworkError; and
\* NetworkError is raised in no other case.
C6_NetworkFailure ==
    LET n == Len(outcomes) IN
    /\ \A j \in 1..n :
         IsNetworkFailure(outcomes[j]) =>
           IF j - 1 < maxRetries
           THEN /\ Len(sleeps) >= j
                /\ sleeps[j] = 1000
                /\ \/ pc = "sleeping" /\ j = n /\ result = Pending
                   \/ attempts >= j + 1
           ELSE /\ j = n
                /\ pc = "done"
                /\ result = Rejected(NetworkError("Connection error"))
                /\ Len(sleeps) = j - 1
    /\ result.error.name = "NetworkError" =>
         /\ n = maxRetries + 1
         /\ IsNetworkFailure(outcomes[n])

\* a refused connection retried after 1000 ms, then refused for good
C6_Witness ==
    /\ maxRetries = 1
    /\ pc = "done"
    /\ Len(outcomes) = 2
    /\ IsNetworkFailure(outcomes[1])
    /\ IsNetworkFailure(outcomes[2])
    /\ sleeps = <<1000>>
    /\ result.error.name = "NetworkError"

\* C7: an error status other than 401, 422 and 429 ends the call at once
\* with the plain XiangxinAIError whose message embeds the status code: it
\* is the last outcome, no sleep and no attempt follows it.
C7_OtherStatusFailsAtOnce ==
    \A i \in 1..Len(outcomes) :
      IsOtherStatus(outcomes[i]) =>
        /\ i = Len(outcomes)
        /\ pc = "done"
        /\ result.state = "rejected"
        /\ result.error.name = "XiangxinAIError"
        /\ result.error.message.template = "API request failed with status ${status}: ${errorMsg}"
        /\ result.error.message.status = outcomes[i].status
        /\ attempts = i
        /\ Len(sleeps) = i - 1

\* a 500 on the first attempt, with retries left
C7_Witness ==
    /\ pc = "done"
    /\ Len(outcomes) = 1
    /\ IsStatus(outcomes[1], 500)
    /\ maxRetries >= 1
    /\ result.error.message.status = 500

\* the detail field of an error response's body, undefined when there is none
DetailOf(data) == IF data.type = "object" THEN data.val.detail ELSE Undefined

\* C8 as stated: a 422 ends the call at once with ValidationError, whose
\* message carries the response's detail whenever that field is present and
\* the generic text otherwise.
C8_DetailWheneverPresent ==
    \A i \in 1..Len(outcomes) :
      IsStatus(outcomes[i], 422) =>
        /\ i = Len(outcomes)
        /\ pc = "done"
        /\ result.state = "rejected"
        /\ result.error.name = "ValidationError"
        /\ result.error.message.arg =
             IF DetailOf(outcomes[i].data).type # "undefined"
             THEN Stringify(DetailOf(outcomes[i].data))
             ELSE <<"Validation error">>
        /\ attempts = i
        /\ Len(sleeps) = i - 1

\* C8, amended: a 422 ends the call at once (no sleep, no further attempt)
\* with ValidationError, whose message carries the response's detail (as
\* converted to a string) when that field is present and truthy, and the
\* generic text when it is absent or falsy (an empty string).
C8_ValidationFailsAtOnce ==
    \A i \in 1..Len(outcomes) :
      IsStatus(outcomes[i], 422) =>
        /\ i = Len(outcomes)
        /\ pc = "done"
        /\ result.state = "rejected"
        /\ result.error.name = "ValidationError"
        /\ result.error.message.template = "Validation error: ${errorDetail}"
        /\ result.error.message.arg =
             IF Truthy(DetailOf(outcomes[i].data))
             THEN Stringify(DetailOf(outcomes[i].data))
             ELSE <<"Validation error">>
        /\ attempts = i
        /\ Len(sleeps) = i - 1

\* a 422 with a detail on the second attempt, with retries left
C8_Witness ==
    /\ pc = "done"
    /\ Len(outcomes) = 2
    /\ IsStatus(outcomes[2], 422)
    /\ Truthy(DetailOf(outcomes[2].data))
    /\ attempt < maxRetries
    /\ result.error.name = "ValidationError"
    /\ result.error.message.arg = <<"a">>

----------------------------------------------------------------------------
(* Properties of the short-circuits *)

\* C9 as stated: checkPrompt on an empty or all-whitespace string resolves
\* with the safe verdict without any attempt or sleep, whatever userId is;
\* on every other string it makes at least one attempt.
C9_OtherStringsAlwaysAttempt ==
    (op = "checkPrompt" /\ args.content.type = "string") =>
      IF AllWhitespace(args.content.val)
      THEN pc = "done" /\ IsSafeVerdict(result) /\ attempts = 0 /\ sleeps = <<>>
      ELSE attempts >= 1

\* C9, amended: as stated, the attempt on every other string being made
\* provided the client's maxRetries is not negative.
C9_BlankPromptShortCircuits ==
    (op = "checkPrompt" /\ args.content.type = "string") =>
      IF AllWhitespace(args.content.val)
      THEN pc = "done" /\ IsSafeVerdict(result) /\ attempts = 0 /\ sleeps = <<>>
      ELSE maxRetries >= 0 => attempts >= 1

\* a prompt of two spaces, with a user id, answered locally
C9_Witness ==
    /\ op = "checkPrompt"
    /\ args.content = Str(<<" ", " ">>)
    /\ args.userId = Str(<<"a">>)
    /\ pc = "done"
    /\ result = Resolved(createSafeResponse)
    /\ attempts = 0

\* C10 (under SpecConversation): checkConversation on a non-empty list whose
\* every element has a valid role and an empty or all-whitespace string
\* content resolves with the safe verdict of createSafeResponse, the one
\* checkPrompt gives, without any attempt.
C10_BlankConversationShortCircuits ==
    (/\ op = "checkConversation"
     /\ args.messages.type = "object"
     /\ Len(args.messages.val) >= 1
     /\ \A i \in 1..Len(args.messages.val) :
          LET msg == args.messages.val[i] IN
          /\ msg.val.role \in ValidRoles
          /\ msg.val.content.type = "string"
          /\ AllWhitespace(msg.val.content.val)) =>
      /\ pc = "done"
      /\ IsSafeVerdict(result)
      /\ result = Resolved(createSafeResponse)
      /\ attempts = 0
      /\ sleeps = <<>>
      /\ request = NoRequest

\* two messages, one empty and one a single space
C10_Witness ==
    /\ op = "checkConversation"
    /\ args.messages.type = "object"
    /\ Len(args.messages.val) = 2
    /\ args.messages.val[1].val = [role |-> Str(<<"user">>), content |-> Str(<<>>)]
    /\ args.messages.val[2].val = [role |-> Str(<<"assistant">>), content |-> Str(<<" ">>)]
    /\ pc = "done"
    /\ result = Resolved(createSafeResponse)
    /\ attempts = 0

----------------------------------------------------------------------------
(* Properties of the public operations (checked under SpecOperations) *)

\* a text argument that is missing or consists of whitespace only
BlankText(v) == v.type # "string" \/ AllWhitespace(v.val)
\* the text an argument contributes to a request body
TrimmedText(v) == IF v.type = "string" THEN Str(trim(v.val)) ELSE Str(<<>>)

ShortCircuited == pc = "done" /\ attempts = 0 /\ IsSafeVerdict(result)

----------------------------------------------------------------------------
(* Properties of checkConversation's validation (checked under             *)
(* SpecConversation)                                                       *)

\* a message that lacks a role, has a role outside the three accepted ones,
\* or has a content that is not a string
InvalidMessage(m) ==
    \/ m.val.role.type = "undefined"
    \/ m.val.role \notin {Str(<<"user">>), Str(<<"system">>), Str(<<"assistant">>)}
    \/ m.val.content.type # "string"

FailedWith(name) == pc = "done" /\ result.state = "rejected" /\ result.error.name = name

\* C12: a checkConversation call whose message list is missing or empty, or
\* contains at any position a message that lacks a role, has a role outside
\* {user, system, assistant} or has a non-string content, has failed with
\* ValidationError without any network attempt, also when every other
\* message is blank (the all-empty short-circuit does not apply).
C12_ConversationValidation ==
    op = "checkConversation" =>
      LET l == args.messages IN
      (\/ l.type = "undefined"
       \/ l.val = <<>>
       \/ \E i \in 1..Len(l.val) : InvalidMessage(l.val[i]))
      => FailedWith("ValidationError") /\ attempts = 0 /\ ~InMakeRequest

\* a list whose first message is valid and blank and whose second message
\* has the role "tool" was rejected
C12_Witness ==
    /\ op = "checkConversation"
    /\ args.messages.type = "object"
    /\ Len(args.messages.val) = 2
    /\ args.messages.val[1] = Obj([role |-> Str(<<"user">>), content |-> Str(<<" ">>)])
    /\ args.messages.val[2].val.role = Str(<<"tool">>)
    /\ args.messages.val[2].val.content.type = "string"
    /\ FailedWith("ValidationError")
    /\ attempts = 0

----------------------------------------------------------------------------
(* Properties of the image operations (checked under SpecOperations) *)

ImageOperation == op \in {"checkPromptImage", "checkPromptImages"}

\* no image was given: the reference is missing or empty, or the list is
\* missing or empty
NoImageGiven ==
    \/ args.images.type = "undefined"
    \/ args.images.val = <<>>
    \/ (op = "checkPromptImage" /\ ~Truthy(args.images.val[1]))

\* every image of the call has been resolved successfully
AllImagesResolved ==
    /\ ~NoImageGiven
    /\ Len(resolutions) = Len(args.images.val)
    /\ \A i \in 1..Len(resolutions) : resolutions[i].outcome.settled = "fulfilled"

\* C13 as stated: an image operation called without an image has failed
\* with ValidationError before resolving anything and without any request,
\* whatever the prompt; and once every image given has been resolved, an
\* attempt to /guardrails has been made, whatever the prompt.
C13_ResolvedImagesAlwaysAttempt ==
    ImageOperation =>
      /\ NoImageGiven =>
            FailedWith("ValidationError") /\ resolutions = <<>> /\ attempts = 0
      /\ AllImagesResolved =>
            attempts >= 1 /\ request.endpoint = "/guardrails"

\* C13 amended: the same, the attempt being made provided the client's
\* maxRetries is not negative.
C13_ImageRequired ==
    ImageOperation =>
      /\ NoImageGiven =>
            FailedWith("ValidationError") /\ resolutions = <<>> /\ attempts = 0
      /\ AllImagesResolved =>
            /\ ~(pc = "done" /\ attempts = 0 /\ result.state = "rejected")
            /\ ~ShortCircuited
            /\ request.endpoint = "/guardrails"
            /\ maxRetries >= 0 => attempts >= 1

\* checkPromptImages with a whitespace prompt and two images, both
\* resolved, has made its attempt
C13_Witness ==
    /\ op = "checkPromptImages"
    /\ args.prompt = Str(<<" ">>)
    /\ Len(args.images.val) = 2
    /\ AllImagesResolved
    /\ attempts = 1
    /\ request.endpoint = "/guardrails"
    /\ Len(contentParts) = 2


\* C14: when the resolution of an image has failed, the call has failed
\* without any request to the service; the failure is a ValidationError
\* whose message carries the path when a local file was not found (ENOENT),
\* and the generic XiangxinAIError for every other resolution failure.
C14_MissingFile ==
    ImageOperation =>
      \A i \in 1..Len(resolutions) :
         LET r == resolutions[i] IN
         r.outcome.settled = "rejected" =>
           /\ pc = "done"
           /\ result.state = "rejected"
           /\ attempts = 0
           /\ ~InMakeRequest
           /\ IF r.outcome.via = "file" /\ r.outcome.code = "ENOENT"
              THEN /\ result.error.name = "ValidationError"
                   /\ result.error.message.arg = r.imagePath.val
              ELSE result.error.name = "XiangxinAIError"

\* the second image of a list, a local path, was not found
C14_Witness ==
    /\ op = "checkPromptImages"
    /\ Len(resolutions) = 2
    /\ resolutions[1].outcome.settled = "fulfilled"
    /\ resolutions[2].imagePath = Str(<<"/img/a.jpg">>)
    /\ resolutions[2].outcome.code = "ENOENT"
    /\ result = Rejected(ValidationError("Image file not found: ${image}", <<"/img/a.jpg">>))
    /\ attempts = 0


----------------------------------------------------------------------------
(* Order of validation and network I/O (checked under SpecOperations) *)

\* The call failed with a ValidationError raised from the caller's input
\* (not the one that reports the service's 422 response).
LocalValidationError ==
    /\ FailedWith("ValidationError")
    /\ ~(outcomes # <<>> /\ IsStatus(outcomes[Len(outcomes)], 422))

FetchedOverHttp(i) == resolutions[i].outcome.via = "http"

\* C15 as stated: a call that failed with a ValidationError raised from
\* the caller's input has performed no network I/O: no request to the
\* service and no image fetch over HTTP.
C15_ValidationBeforeAnyNetworkIO ==
    LocalValidationError =>
      /\ attempts = 0
      /\ \A i \in 1..Len(resolutions) : ~FetchedOverHttp(i)

\* C15 amended: such a call has sent no request to the service, and the
\* only network I/O it can have performed is, in checkPromptImages, the
\* successful HTTP fetch of images that precede the local image file that
\* was not found.
C15_ValidationBeforeServiceRequest ==
    LocalValidationError =>
      /\ attempts = 0
      /\ ~InMakeRequest
      /\ (\E i \in 1..Len(resolutions) : FetchedOverHttp(i)) =>
            LET n == Len(resolutions) IN
            /\ op = "checkPromptImages"
            /\ resolutions[n].outcome.via = "file"
            /\ resolutions[n].outcome.code = "ENOENT"
            /\ \A i \in 1..(n - 1) : resolutions[i].outcome.settled = "fulfilled"

\* checkPromptImages fetched its first image over HTTP and then failed
\* with ValidationError because the second one, a local file, was missing
C15_Witness ==
    /\ op = "checkPromptImages"
    /\ Len(resolutions) = 2
    /\ FetchedOverHttp(1)
    /\ resolutions[1].outcome.settled = "fulfilled"
    /\ resolutions[2].outcome.code = "ENOENT"
    /\ LocalValidationError
    /\ attempts = 0


----------------------------------------------------------------------------
(* Which failures are retried, and when a call fails (checked under Spec) *)

\* an exception that is no AxiosError and none of the client's own
\* Authentication/Validation/RateLimit errors
IsUnexpected(o) ==
    /\ o.settled = "rejected"
    /\ ~o.isAxiosError
    /\ o.name \notin {"AuthenticationError", "ValidationError", "RateLimitError"}

\* C16 as stated: every sleep of makeRequest (each is followed by a further
\* attempt) came after an attempt that ended with a 429, a timeout or a
\* generic network failure.
C16_OnlyTransportFailuresRetried ==
    \A i \in 1..Len(sleeps) :
       Is429(outcomes[i]) \/ IsTimeout(outcomes[i]) \/ IsNetworkFailure(outcomes[i])

\* C16 amended: every sleep came after a 429, a timeout, a generic network
\* failure or an unexpected exception that is not an axios error (retried
\* after 1000 ms while retries remain), never after a 2xx, a 401, a 422 or
\* another status; and every sleep is followed by a further attempt.
C16_RetriedFailures ==
    /\ \A i \in 1..Len(sleeps) :
          /\ \/ Is429(outcomes[i])
             \/ IsTimeout(outcomes[i])
             \/ IsNetworkFailure(outcomes[i])
             \/ IsUnexpected(outcomes[i]) /\ sleeps[i] = 1000
          /\ i - 1 < maxRetries
    /\ pc = "sleeping" => Len(sleeps) = attempts
    /\ pc # "sleeping" => attempts > Len(sleeps) \/ attempts = 0

\* a TypeError thrown during the first attempt was followed by a sleep of
\* one second and a second attempt
C16_Witness ==
    /\ Len(outcomes) >= 1
    /\ outcomes[1] = Thrown("TypeError")
    /\ sleeps = <<1000>>
    /\ attempts = 2


MakeRequestFailed == InMakeRequest /\ pc = "done" /\ result.state = "rejected"

\* C17 as stated: whenever makeRequest has failed with an error, it has
\* made maxRetries + 1 attempts.
C17_EveryFailureAfterExhaustion ==
    MakeRequestFailed => attempts = maxRetries + 1

\* C17 amended: whenever makeRequest has failed because of a 429, a
\* timeout, a network failure or an unexpected exception, it has made
\* maxRetries + 1 attempts; a failure caused by a 401, a 422 or another
\* non-2xx status surfaced at the attempt that received it, which can be
\* any of the maxRetries + 1.
C17_FailureAfterExhaustion ==
    MakeRequestFailed =>
      LET last == outcomes[Len(outcomes)] IN
      /\ attempts = Len(outcomes)
      /\ attempts <= maxRetries + 1
      /\ (Is429(last) \/ IsTimeout(last) \/ IsNetworkFailure(last) \/ IsUnexpected(last))
            => attempts = maxRetries + 1
      /\ (Is429(last) \/ IsTimeout(last) \/ IsNetworkFailure(last) \/ IsUnexpected(last))
            \/ IsStatus(last, 401) \/ IsStatus(last, 422) \/ IsOtherStatus(last)

\* with maxRetries = 2, a call whose three attempts all timed out failed
\* after the third
C17_Witness ==
    /\ MakeRequestFailed
    /\ maxRetries = 2
    /\ attempts = 3
    /\ \A i \in 1..3 : IsTimeout(outcomes[i])
    /\ result = Rejected(XiangxinAIError("Request timeout", 0, <<>>))


----------------------------------------------------------------------------
(* Errors of the client's own classes raised inside an attempt (checked    *)
(* under SpecRaised)                                                       *)

IsRaisedClientError(o) ==
    /\ o.settled = "rejected"
    /\ ~o.isAxiosError
    /\ o.name \in {"AuthenticationError", "ValidationError", "RateLimitError"}

\* C18: when an attempt ended with an AuthenticationError, ValidationError
\* or RateLimitError raised inside it, that attempt was the last one: the
\* call has failed with that very error, no sleep followed it and no
\* further attempt was made, whatever budget remained.
C18_RaisedClientErrorPropagates ==
    \A i \in 1..Len(outcomes) :
       IsRaisedClientError(outcomes[i]) =>
         /\ i = Len(outcomes)
         /\ pc = "done"
         /\ result = Rejected(Error(outcomes[i].name, outcomes[i].message))
         /\ attempts = i
         /\ Len(sleeps) = i - 1

\* with maxRetries = 3, a RateLimitError raised inside the second attempt
\* (after one 429) ended the call although two attempts remained
C18_Witness ==
    /\ maxRetries = 3
    /\ Len(outcomes) = 2
    /\ Is429(outcomes[1])
    /\ outcomes[2] = Raised(RateLimitError("raised inside the attempt"))
    /\ result = Rejected(RateLimitError("raised inside the attempt"))
    /\ attempts = 2
    /\ sleeps = <<2000>>
    /\ pc = "done"


----------------------------------------------------------------------------
(* Independence of concurrent calls (checked under SpecConcurrent) *)

\* What makeRequest does running alone against the responses outs, from
\* loop index a on, having slept for the durations slept: the attempts,
\* sleeps and result of the call, and the responses it did not consume
\* (complete is false when outs ends before the call does).
RECURSIVE Alone(_, _, _, _)
Alone(endpoint, outs, a, slept) ==
    IF ~loopCondition(a)
    THEN [complete |-> TRUE, attempts |-> a, sleeps |-> slept,
          result |-> Resolved(Undefined), rest |-> outs]
    ELSE IF outs = <<>>
    THEN [complete |-> FALSE, attempts |-> a + 1, sleeps |-> slept,
          result |-> Pending, rest |-> outs]
    ELSE IF Head(outs).settled = "fulfilled"
    THEN [complete |-> TRUE, attempts |-> a + 1, sleeps |-> slept,
          result |-> Resolved(onSuccess(endpoint, Head(outs))), rest |-> Tail(outs)]
    ELSE LET d == catch(Head(outs), a) IN
         IF d.do = "throw"
         THEN [complete |-> TRUE, attempts |-> a + 1, sleeps |-> slept,
               result |-> Rejected(d.error), rest |-> Tail(outs)]
         ELSE Alone(endpoint, Tail(outs), a + 1, Append(slept, d.ms))

\* a settled call did what it would have done alone against its responses
AsAlone(f) ==
    (f.pc = "done" /\ f.request # NoRequest) =>
       LET r == Alone(f.request.endpoint, f.outcomes, 0, <<>>) IN
       /\ r.complete
       /\ r.rest = <<>>
       /\ f.attempts = r.attempts
       /\ f.sleeps = r.sleeps
       /\ f.result = r.result

\* C19: of two calls in flight on one client, under every interleaving of
\* their attempts and sleeps, each one, once settled, has made the attempts,
\* slept the durations and got the outcome it would have had alone against
\* its own responses; while one call sleeps the response of the other can
\* be processed; and no step of any call changes maxRetries.
C19_ConcurrentCallsIndependent ==
    /\ [](AsAlone(frame) /\ AsAlone(other))
    /\ []((pc = "awaiting" /\ other.pc = "sleeping") => ENABLED (\E o \in Outcomes : Respond(o)))
    /\ [][maxRetries' = maxRetries]_vars

\* two calls were in flight together: one was answered 429 and is asleep,
\* while the other was answered 429, slept, was answered 200 and is settled
C19_Witness ==
    /\ maxRetries = 2
    /\ other.pc = "sleeping"
    /\ other.op = "healthCheck"
    /\ Len(other.outcomes) = 1
    /\ Is429(other.outcomes[1])
    /\ other.attempt = 0
    /\ pc = "done"
    /\ op = "getModels"
    /\ Len(outcomes) = 2
    /\ Is429(outcomes[1])
    /\ outcomes[2].settled = "fulfilled"
    /\ attempts = 2
    /\ sleeps = <<2000>>


----------------------------------------------------------------------------
(* Shape of the requests (checked under SpecOperations) *)

\* a field of a request body that is absent or undefined (JSON drops it)
Absent(data, field) == field \notin DOMAIN data \/ data[field] = Undefined

EndpointOf(operation) ==
    CASE operation = "checkPrompt" -> [method |-> "POST", endpoint |-> "/guardrails/input"]
      [] operation = "checkResponseCtx" -> [method |-> "POST", endpoint |-> "/guardrails/output"]
      [] operation \in {"checkConversation", "checkPromptImage", "checkPromptImages"} ->
            [method |-> "POST", endpoint |-> "/guardrails"]
      [] operation = "healthCheck" -> [method |-> "GET", endpoint |-> "/guardrails/health"]
      [] operation = "getModels" -> [method |-> "GET", endpoint |-> "/guardrails/models"]

\* C20: the request of every operation has the method and endpoint of the
\* interface table; a user id that was supplied (a non-empty string) is
\* the top-level field xxai_app_user_id of the body for /guardrails/input
\* and /guardrails/output, and the field xxai_app_user_id of extra_body,
\* and of nothing else, for /guardrails, whose messages have only role and
\* content; without a user id the field is absent from the body.
C20_RequestsMatchInterface ==
    InMakeRequest =>
      /\ request.method = EndpointOf(op).method
      /\ request.endpoint = EndpointOf(op).endpoint
      /\ op \in {"healthCheck", "getModels"} => request.data = Undefined
      /\ op \in {"checkPrompt", "checkResponseCtx"} =>
            /\ Absent(request.data, "extra_body")
            /\ IF Truthy(args.userId)
               THEN request.data.xxai_app_user_id = args.userId
               ELSE Absent(request.data, "xxai_app_user_id")
      /\ op \in {"checkConversation", "checkPromptImage", "checkPromptImages"} =>
            /\ Absent(request.data, "xxai_app_user_id")
            /\ \A i \in 1..Len(request.data.messages) :
                  DOMAIN request.data.messages[i].val = {"role", "content"}
            /\ IF Truthy(args.userId)
               THEN request.data.extra_body = Obj([xxai_app_user_id |-> args.userId])
               ELSE Absent(request.data, "extra_body")

\* checkPromptImages with the user id "a" posted to /guardrails with the id
\* inside extra_body
C20_Witness ==
    /\ op = "checkPromptImages"
    /\ args.userId = Str(<<"a">>)
    /\ attempts = 1
    /\ request.method = "POST"
    /\ request.endpoint = "/guardrails"
    /\ request.data.extra_body = Obj([xxai_app_user_id |-> Str(<<"a">>)])
    /\ Absent(request.data, "xxai_app_user_id")


----------------------------------------------------------------------------
(* The messages checkConversation sends (checked under SpecConversation) *)

\* a message whose content has something left after trimming
NonBlankContent(m) == m.val.content.type = "string" /\ ~AllWhitespace(m.val.content.val)

\* C21: the messages of a request of checkConversation are exactly the
\* input messages whose trimmed content is not empty, in their order, each
\* with its role and its content as given (not trimmed), and there is at
\* least one; and a list of messages that all have a valid role and a
\* string content does not fail validation, blank contents included.
C21_OutgoingMessages ==
    op = "checkConversation" =>
      /\ InMakeRequest =>
            /\ request.data.messages = SelectSeq(args.messages.val, NonBlankContent)
            /\ request.data.messages # <<>>
      /\ (/\ args.messages.type = "object"
          /\ args.messages.val # <<>>
          /\ \A i \in 1..Len(args.messages.val) : ~InvalidMessage(args.messages.val[i]))
         => ~LocalValidationError

\* of the messages [user " ", assistant " a"] only the second was sent,
\* with its content untrimmed
C21_Witness ==
    /\ op = "checkConversation"
    /\ args.messages.type = "object"
    /\ args.messages.val = <<Obj([role |-> Str(<<"user">>), content |-> Str(<<" ">>)]),
                             Obj([role |-> Str(<<"assistant">>), content |-> Str(<<" ", "a">>)])>>
    /\ request.data.messages = <<Obj([role |-> Str(<<"assistant">>), content |-> Str(<<" ", "a">>)])>>
    /\ attempts = 1


----------------------------------------------------------------------------
(* The message the image operations send (checked under SpecOperations) *)

\* the content parts expected for a prompt and the images resolved
ExpectedTextParts(prompt) ==
    IF BlankText(prompt) THEN <<>>
    ELSE <<Obj([type |-> Str(<<"text">>), text |-> TrimmedText(prompt)])>>

ExpectedImagePart(r) ==
    Obj([type |-> Str(<<"image_url">>),
         image_url |-> Obj([url |-> Str(<<"data:image/jpeg;base64,", r.outcome.base64>>)])])

\* C22: a request of checkPromptImage or checkPromptImages has exactly one
\* message, with role user, whose content is a text part with the trimmed
\* prompt exactly when the trimmed prompt is not empty, followed by one
\* image part per image reference of the call, in input order; its model
\* is the one given or, by default, the vision model, which is not the
\* text model checkConversation defaults to.
C22_ImageMessage ==
    (ImageOperation /\ InMakeRequest) =>
      LET n == Len(args.images.val)
          text == ExpectedTextParts(args.prompt) IN
      /\ Len(request.data.messages) = 1
      /\ request.data.messages[1].val.role = Str(<<"user">>)
      /\ Len(resolutions) = n
      /\ \A i \in 1..n : resolutions[i].imagePath = args.images.val[i]
      /\ request.data.messages[1].val.content =
            Obj(text \o [i \in 1..n |-> ExpectedImagePart(resolutions[i])])
      /\ Len(request.data.messages[1].val.content.val) = n + Len(text)
      /\ request.data.model =
            IF args.model.type = "undefined" THEN Str(<<"Xiangxin-Guardrails-VL">>)
            ELSE args.model
      /\ args.model.type = "undefined" =>
            request.data.model # Str(<<"Xiangxin-Guardrails-Text">>)

\* checkPromptImages(" a", [URL, local file]) without model sent the text
\* part "a", then the part of the URL, then the part of the file
C22_Witness ==
    /\ op = "checkPromptImages"
    /\ args.prompt = Str(<<" ", "a">>)
    /\ args.model = Undefined
    /\ args.images.val = <<Str(<<"http://", "host/a.jpg">>), Str(<<"/img/a.jpg">>)>>
    /\ InMakeRequest
    /\ attempts = 1
    /\ Len(request.data.messages[1].val.content.val) = 3
    /\ request.data.messages[1].val.content.val[1].val.text = Str(<<"a">>)
    /\ request.data.messages[1].val.content.val[2] # request.data.messages[1].val.content.val[3]
    /\ request.data.model = Str(<<"Xiangxin-Guardrails-VL">>)


----------------------------------------------------------------------------
(* Backoff durations and the final error of mixed failures (checked under  *)
(* Spec)                                                                   *)

\* C23: the sleep after the attempt with index i (the i+1-th attempt of the
\* call) lasts (2^i)*1000+1000 ms when that attempt got a 429, whatever the
\* earlier attempts got, and 1000 ms when it timed out or failed at the
\* network level, whatever the index.
C23_BackoffByAttemptIndex ==
    \A k \in 1..Len(sleeps) :
       /\ Is429(outcomes[k]) => sleeps[k] = (2 ^ (k - 1)) * 1000 + 1000
       /\ (IsTimeout(outcomes[k]) \/ IsNetworkFailure(outcomes[k])) => sleeps[k] = 1000

\* the outcomes [timeout, 429, 200] gave sleeps of 1000 ms then 3000 ms
C23_Witness ==
    /\ Len(outcomes) = 3
    /\ IsTimeout(outcomes[1])
    /\ Is429(outcomes[2])
    /\ outcomes[3].settled = "fulfilled"
    /\ sleeps = <<1000, 3000>>
    /\ pc = "done"
    /\ result.state = "fulfilled"


\* C24: a call that failed at its last permitted attempt with a retryable
\* failure raised the error of that last failure: RateLimitError for a
\* 429, the plain error 'Request timeout' for a timeout, NetworkError for
\* another transport failure, whatever the failures of the earlier
\* attempts were.
C24_LastFailureDecides ==
    MakeRequestFailed =>
      LET last == outcomes[Len(outcomes)] IN
      /\ Is429(last) => result = Rejected(RateLimitError("Rate limit exceeded"))
      /\ IsTimeout(last) => result = Rejected(XiangxinAIError("Request timeout", 0, <<>>))
      /\ IsNetworkFailure(last) => result = Rejected(NetworkError("Connection error"))

\* with maxRetries = 2, the outcomes [429, timeout, connection refused]
\* ended in NetworkError
C24_Witness ==
    /\ maxRetries = 2
    /\ Len(outcomes) = 3
    /\ Is429(outcomes[1])
    /\ IsTimeout(outcomes[2])
    /\ IsNetworkFailure(outcomes[3])
    /\ result = Rejected(NetworkError("Connection error"))
    /\ sleeps = <<2000, 1000>>


----------------------------------------------------------------------------
(* Shape of an execution of makeRequest (checked under Spec) *)

\* C25 as stated: attempts and sleeps alternate, starting with an attempt:
\* while a request is in flight there has been one sleep less than
\* attempts, while the call sleeps as many; and at termination the number
\* of sleeps is the number of attempts minus one and at most maxRetries.
C25_AttemptsAndSleepsAlternate ==
    InMakeRequest =>
      /\ pc = "awaiting" => Len(sleeps) = attempts - 1 /\ Len(outcomes) = attempts - 1
      /\ pc = "sleeping" => Len(sleeps) = attempts /\ Len(outcomes) = attempts
      /\ pc = "done" => Len(sleeps) = attempts - 1 /\ Len(sleeps) <= maxRetries

\* C25 amended: the same for a client whose maxRetries is not negative;
\* with a negative maxRetries the call ends with no attempt and no sleep.
C25_Alternation ==
    InMakeRequest =>
      /\ pc = "awaiting" => Len(sleeps) = attempts - 1 /\ Len(outcomes) = attempts - 1
      /\ pc = "sleeping" => Len(sleeps) = attempts /\ Len(outcomes) = attempts
      /\ (pc = "done" /\ maxRetries >= 0) =>
            /\ Len(sleeps) = attempts - 1
            /\ Len(sleeps) <= maxRetries
            /\ Len(outcomes) = attempts
      /\ (pc = "done" /\ maxRetries < 0) => attempts = 0 /\ sleeps = <<>>

\* a call ended after three attempts separated by two sleeps
C25_Witness ==
    /\ InMakeRequest
    /\ pc = "done"
    /\ maxRetries = 3
    /\ attempts = 3
    /\ Len(sleeps) = 2
    /\ outcomes[3].settled = "fulfilled"


----------------------------------------------------------------------------
(* Termination of makeRequest (checked under SpecTermination) *)

\* makeRequest ended by returning the body of its last, successful attempt
\* or by raising an error
ReturnedBodyOrRaised ==
    \/ /\ result.state = "fulfilled"
       /\ outcomes # <<>>
       /\ outcomes[Len(outcomes)].settled = "fulfilled"
       /\ result.value = outcomes[Len(outcomes)].data
    \/ /\ result.state = "rejected"
       /\ result.error # NoError

\* C26: on a client whose maxRetries is not negative, every call of
\* makeRequest terminates, whatever its attempts get, and a call that has
\* terminated has returned the body of a 2xx attempt or raised an error:
\* it never resolves with undefined for lack of a successful attempt.
C26_Terminates ==
    /\ [](InMakeRequest /\ pc = "done" => ReturnedBodyOrRaised)
    /\ [](InMakeRequest => attempt <= maxRetries)
    /\ (InMakeRequest ~> pc = "done")

\* a call whose every attempt was answered 429 terminated with an error
\* after maxRetries + 1 attempts
C26_Witness ==
    /\ InMakeRequest
    /\ pc = "done"
    /\ maxRetries = 2
    /\ attempts = 3
    /\ \A i \in 1..3 : Is429(outcomes[i])
    /\ result.state = "rejected"


----------------------------------------------------------------------------
(* The errors the operations raise (checked under SpecOperations) *)

\* C27: an error with which makeRequest has terminated is an
\* AuthenticationError, a ValidationError, a RateLimitError, a NetworkError
\* or a plain XiangxinAIError, and so an instance of XiangxinAIError; and
\* no operation has failed with ServerError, a 5xx response included.
C27_ErrorClasses ==
    (pc = "done" /\ result.state = "rejected") =>
      /\ result.error.name # "ServerError"
      /\ InMakeRequest =>
            /\ result.error.name \in {"AuthenticationError", "ValidationError",
                                      "RateLimitError", "NetworkError", "XiangxinAIError"}
            /\ instanceof(result.error.name, "XiangxinAIError")

\* a 500 response failed the call with the plain XiangxinAIError
C27_Witness ==
    /\ InMakeRequest
    /\ pc = "done"
    /\ Len(outcomes) = 1
    /\ IsStatus(outcomes[1], 500)
    /\ result.state = "rejected"
    /\ result.error.name = "XiangxinAIError"
    /\ result.error.message.status = 500


----------------------------------------------------------------------------
(* getAllCategories (checked under SpecCategories) *)

Members(xs) == {xs[i] : i \in 1..Len(xs)}
NoDuplicates(xs) == \A i, j \in 1..Len(xs) : xs[i] = xs[j] => i = j
DataPresent(response) ==
    "data" \in DOMAIN response.val.result /\ response.val.result.data.type = "object"

\* C28: the list getAllCategories returned for a response has no duplicate,
\* and its members are those of the compliance categories, of the security
\* categories and, when the response has a data result, of the data
\* categories; without a data result, those of the first two only.
C28_AllCategories ==
    (op = "getAllCategories" /\ pc = "done") =>
      LET res == args.response.val.result
          returned == result.value.val IN
      /\ result.state = "fulfilled"
      /\ NoDuplicates(returned)
      /\ Members(returned) =
            Members(res.compliance.categories) \cup Members(res.security.categories)
               \cup (IF DataPresent(args.response)
                     THEN Members(res.data.val.categories) ELSE {})

\* compliance [S1, S1], security [S1] and data [S2] gave the two
\* categories S1 and S2, each once
C28_Witness ==
    /\ op = "getAllCategories"
    /\ pc = "done"
    /\ args.response.val.result.compliance.categories = <<"S1", "S1">>
    /\ args.response.val.result.security.categories = <<"S1">>
    /\ DataPresent(args.response)
    /\ args.response.val.result.data.val.categories = <<"S2">>
    /\ Len(result.value.val) = 2
    /\ Members(result.value.val) = {"S1", "S2"}


----------------------------------------------------------------------------
(* Order of image resolution (checked under SpecOperations) *)

\* C29: in checkPromptImages the images resolved so far are the first
\* images of the list, in input order, one at a time; only the last one
\* resolved can have failed, and then the call has failed, nothing after
\* it has been resolved and no request to /guardrails exists; a request
\* exists only when every image of the list has been resolved.
C29_SequentialResolution ==
    op = "checkPromptImages" =>
      LET k == Len(resolutions) IN
      /\ args.images.type = "object" => k <= Len(args.images.val)
      /\ \A i \in 1..k : resolutions[i].imagePath = args.images.val[i]
      /\ \A i \in 1..(k - 1) : resolutions[i].outcome.settled = "fulfilled"
      /\ pc = "resolving" => imageIndex = k + 1
      /\ (k >= 1 /\ resolutions[k].outcome.settled = "rejected") =>
            /\ pc = "done"
            /\ result.state = "rejected"
            /\ ~InMakeRequest
            /\ attempts = 0
      /\ InMakeRequest => AllImagesResolved

\* of the images [local file, URL] the first failed: the call failed and
\* the URL was never fetched
C29_Witness ==
    /\ op = "checkPromptImages"
    /\ args.images.val = <<Str(<<"/img/a.jpg">>), Str(<<"http://", "host/a.jpg">>)>>
    /\ Len(resolutions) = 1
    /\ resolutions[1].outcome.settled = "rejected"
    /\ pc = "done"
    /\ result.state = "rejected"
    /\ ~InMakeRequest


----------------------------------------------------------------------------
(* The two short-circuits of checkConversation (checked under              *)
(* SpecConversation)                                                       *)

\* the validation loop has run over the messages of the call
LoopRan == op = "checkConversation" /\ args.messages.type = "object" /\ args.messages.val # <<>>

\* C30: when the validation loop of a checkConversation call has completed
\* without error, allEmpty is true exactly when validatedMessages is empty,
\* so the second short-circuit (no validated message although allEmpty is
\* false) does not occur, and the call short-circuits exactly when the flag
\* is true.
C30_ShortCircuitsCoincide ==
    LoopRan =>
      LET v == validateMessages(args.messages.val, <<>>, TRUE) IN
      v.error = NoError =>
        /\ v.allEmpty <=> v.validatedMessages = <<>>
        /\ ~(~v.allEmpty /\ Len(v.validatedMessages) = 0)
        /\ ShortCircuited <=> v.allEmpty
        /\ InMakeRequest <=> ~v.allEmpty

\* the loop ran over one blank and one non-blank message: allEmpty is
\* false, one message is validated and the request was made
C30_Witness ==
    /\ LoopRan
    /\ Len(args.messages.val) = 2
    /\ validateMessages(args.messages.val, <<>>, TRUE).error = NoError
    /\ ~validateMessages(args.messages.val, <<>>, TRUE).allEmpty
    /\ Len(validateMessages(args.messages.val, <<>>, TRUE).validatedMessages) = 1
    /\ InMakeRequest
    /\ attempts = 1

====
